---- MODULE Spec2Model ----
(***************************************************************************)
(* Model of the BCRA bureau client and eligibility analyzer of the         *)
(* cityloan advisor portal (src/src/utils/bcraApi.ts).                     *)
(*                                                                         *)
(* Strings are sequences of one-character strings, so that stripping,      *)
(* substring, parseInt and localeCompare are computed as the code computes *)
(* them.  A nullable value (T | null) is <<>> for null and <<v>> for v.    *)
(***************************************************************************)
EXTENDS Integers, Sequences, FiniteSets, TLC

VARIABLES
    currentData,      \* analyzeBCRAEligibility: argument currentData
    historicalData,   \* analyzeBCRAEligibility: argument historicalData
    now,              \* the wall clock read by new Date(): [year, month]
    analysis,         \* the verdict returned, <<>> before the call returns
    earlier,          \* the calls of the analyzer that returned before this one
    fetchOp,          \* bureau client: the operation called, "debt" or "historical"
    cuit,             \* bureau client: the argument cuit
    fetchPc,          \* bureau client: "start", "awaiting" (at await fetch) or "done"
    requests,         \* bureau client: the outbound requests issued so far
    outcome,          \* bureau client: how the promise settled, <<>> while pending
    received,         \* bureau client: what came back for the request, <<>> if nothing yet
    assessPc,         \* performLoanAssessment: where the call stands
    assessCuit,       \* performLoanAssessment: the argument cuit
    assessments,      \* performLoanAssessment: calls made so far
    bcraData,         \* performLoanAssessment: the local bcraData, <<>> when undefined
    fetchCalls,       \* performLoanAssessment: the fetch calls of this call, as they ended
    assessmentCache,  \* the module's assessmentCache: a set of [key, value]
    assessmentResult, \* performLoanAssessment: the value returned, <<>> for undefined
    cuitInput,        \* isValidCuit: the argument cuit
    cuitAccepted,     \* isValidCuit: the boolean returned, <<>> before the call
    rpUser,           \* ResultsPage: useAuth() has given a user
    rpHasId,          \* ResultsPage: the assessment shown has an id
    isSaved,          \* ResultsPage: the state isSaved
    saveCalls,        \* ResultsPage: the calls of saveAssessment, where each stands
    effectRuns,       \* ResultsPage: runs of the effect so far
    matchingRows,     \* assessments table: rows the existence check matches
    insertedRows,     \* assessments table: rows inserted by this page
    currentView,      \* App: the state currentView
    currentAssessment,    \* App: the state currentAssessment, <<>> for null
    selectedAssessment,   \* App: the state selectedAssessment, <<>> for null
    currentLoanOperation, \* App: the state currentLoanOperation, <<>> for null
    loanOperationsTable,  \* the table loan_operations: a set of rows
    backOfficeLoading,    \* BackOfficePage: the state loading
    loanOperations,   \* BackOfficePage: the state loanOperations, as fetched
    currentStage,     \* LoanApplicationPage: the state currentStage
    operationData,    \* LoanApplicationPage: the state operationData, <<>> for null
    isReadOnly,       \* LoanApplicationPage: the state isReadOnly
    loading,          \* LoanApplicationPage: the state loading
    submitError,      \* LoanApplicationPage: the state submitError is not empty
    saves,            \* createOrUpdateOperation: the saves awaiting their answer
    everCompleted     \* ids of the operations whose row has had status 'completed'

analyzerVars == <<currentData, historicalData, now, analysis, earlier>>

bureauVars == <<fetchOp, cuit, fetchPc, requests, outcome, received>>

assessVars == <<assessPc, assessCuit, assessments, bcraData, fetchCalls,
                assessmentCache, assessmentResult>>

validatorVars == <<cuitInput, cuitAccepted>>

\* The state of the pages and utilities around the bureau client and analyzer
resultsVars == <<rpUser, rpHasId, isSaved, saveCalls, effectRuns,
                 matchingRows, insertedRows>>

appVars == <<currentView, currentAssessment, selectedAssessment,
             currentLoanOperation>>

wizardVars == <<loanOperationsTable, backOfficeLoading, loanOperations,
                currentStage, operationData, isReadOnly, loading, submitError,
                saves, everCompleted>>

uiVars == <<validatorVars, resultsVars, appVars, wizardVars>>

vars == <<currentData, historicalData, now, analysis, earlier,
          fetchOp, cuit, fetchPc, requests, outcome, received,
          assessPc, assessCuit, assessments, bcraData, fetchCalls,
          assessmentCache, assessmentResult,
          cuitInput, cuitAccepted,
          rpUser, rpHasId, isSaved, saveCalls, effectRuns, matchingRows,
          insertedRows,
          currentView, currentAssessment, selectedAssessment,
          currentLoanOperation,
          loanOperationsTable, backOfficeLoading, loanOperations,
          currentStage, operationData, isReadOnly, loading, submitError,
          saves, everCompleted>>

----------------------------------------------------------------------------
(* Bounds of the model *)

MaxPeriodos == 2      \* periods in a bureau record
MaxEntidades == 2     \* entities reported in one record, over all its periods
MaxSituacion == 3     \* situation codes run from 1 to MaxSituacion
MaxDigits == 12       \* digits in an identifier handed to the bureau client

----------------------------------------------------------------------------
(* Nullable values *)

Null == <<>>
Some(v) == <<v>>
IsNull(o) == o = <<>>
Val(o) == o[1]

----------------------------------------------------------------------------
(* Strings *)

DigitChars == {"0", "1", "2", "3", "4", "5", "6", "7", "8", "9"}

DigitValue ==
    ("0" :> 0) @@ ("1" :> 1) @@ ("2" :> 2) @@ ("3" :> 3) @@ ("4" :> 4) @@
    ("5" :> 5) @@ ("6" :> 6) @@ ("7" :> 7) @@ ("8" :> 8) @@ ("9" :> 9)

DigitChar == <<"0", "1", "2", "3", "4", "5", "6", "7", "8", "9">>

Min(a, b) == IF a <= b THEN a ELSE b

\* String.prototype.substring(start, end) for 0 <= start <= end
substring(s, start, end) == SubSeq(s, Min(start, Len(s)) + 1, Min(end, Len(s)))

\* parseInt on a string of decimal digits
RECURSIVE parseInt(_)
parseInt(s) ==
    IF Len(s) = 0 THEN 0
    ELSE 10 * parseInt(SubSeq(s, 1, Len(s) - 1)) + DigitValue[s[Len(s)]]

\* Number.prototype.toString() of a natural number
RECURSIVE toString(_)
toString(n) ==
    IF n < 10 THEN <<DigitChar[n + 1]>>
    ELSE toString(n \div 10) \o <<DigitChar[(n % 10) + 1]>>

\* String.prototype.padStart(width, '0')
RECURSIVE padStart(_, _)
padStart(s, width) == IF Len(s) >= width THEN s ELSE padStart(<<"0">> \o s, width)

\* a.localeCompare(b) on strings of decimal digits: -1, 0 or 1
RECURSIVE localeCompare(_, _)
localeCompare(a, b) ==
    IF Len(a) = 0 /\ Len(b) = 0 THEN 0
    ELSE IF Len(a) = 0 THEN -1
    ELSE IF Len(b) = 0 THEN 1
    ELSE IF DigitValue[a[1]] < DigitValue[b[1]] THEN -1
    ELSE IF DigitValue[a[1]] > DigitValue[b[1]] THEN 1
    ELSE localeCompare(Tail(a), Tail(b))

\* `${year}${month.toString().padStart(2, '0')}`: the YYYYMM label of a month
periodLabel(year, month) == toString(year) \o padStart(toString(month), 2)

----------------------------------------------------------------------------
(* Eligibility analyzer *)

\* The comparator handed to sort: (a, b) => b.periodo.localeCompare(a.periodo)
comparePeriods(a, b) == localeCompare(b.periodo, a.periodo)

\* Array.prototype.sort is stable: x goes behind every element that does not
\* compare greater than it.
RECURSIVE insertSorted(_, _)
insertSorted(sorted, x) ==
    IF Len(sorted) = 0 THEN <<x>>
    ELSE IF comparePeriods(sorted[1], x) <= 0
         THEN <<sorted[1]>> \o insertSorted(Tail(sorted), x)
         ELSE <<x>> \o sorted

RECURSIVE sortPeriods(_)
sortPeriods(periodos) ==
    IF Len(periodos) = 0 THEN <<>>
    ELSE insertSorted(sortPeriods(SubSeq(periodos, 1, Len(periodos) - 1)),
                      periodos[Len(periodos)])

\* Math.max(...xs) of a non-empty list of numbers
RECURSIVE MathMax(_)
MathMax(xs) ==
    IF Len(xs) = 1 THEN xs[1]
    ELSE LET m == MathMax(Tail(xs)) IN IF xs[1] >= m THEN xs[1] ELSE m

\* periodo.entidades.map((e) => e.situacion)
situaciones(entidades) == [i \in 1..Len(entidades) |-> entidades[i].situacion]

\* A period without entities counted as situation 0
getWorstSituationForPeriod_EmptyZero(periodo) ==
    IF Len(periodo.entidades) = 0 THEN 0
    ELSE MathMax(situaciones(periodo.entidades))

getWorstSituationForPeriod(periodo) ==
    IF Len(periodo.entidades) = 0 THEN 1
    ELSE MathMax(situaciones(periodo.entidades))

\* periods.map(getWorstSituationForPeriod)
worstSituations(periods) ==
    [i \in 1..Len(periods) |-> getWorstSituationForPeriod(periods[i])]

\* A date whose negative month index stops at January instead of rolling over
DateOf_NoRollover(year, monthIndex) ==
    year * 12 + (IF monthIndex < 0 THEN 0 ELSE monthIndex)

\* new Date(year, monthIndex) as a count of months: a month index outside
\* 0..11 rolls over into the neighbouring years.
DateOf(year, monthIndex) == year * 12 + monthIndex

\* A window whose cut-off month itself is left out
isPeriodWithinMonths_Exclusive(periodo, months, clock) ==
    LET periodoYear == parseInt(substring(periodo, 0, 4))
        periodoMonth == parseInt(substring(periodo, 4, 6))
        periodoDate == DateOf(periodoYear, periodoMonth - 1)
        cutoffDate == DateOf(clock.year, clock.month - 1 - months)
    IN  periodoDate > cutoffDate

isPeriodWithinMonths(periodo, months, clock) ==
    LET periodoYear == parseInt(substring(periodo, 0, 4))
        periodoMonth == parseInt(substring(periodo, 4, 6))
        periodoDate == DateOf(periodoYear, periodoMonth - 1)
        cutoffDate == DateOf(clock.year, clock.month - 1 - months)
    IN  periodoDate >= cutoffDate

Reason(motivo, valor) == [motivo |-> motivo, valor |-> valor]

\* A verdict object that starts out eligible
InitialAnalysis_Eligible(clock) ==
    [isEligible |-> TRUE,
     status |-> "BCRA_APTO",
     currentSituation |-> Null,
     last6MonthsWorstSituation |-> Null,
     last12MonthsWorstSituation |-> Null,
     failureReasons |-> <<>>,
     analysisDate |-> clock]

\* A verdict object whose reason list is the one of the call before
InitialAnalysis_SharedReasons(clock) ==
    [isEligible |-> FALSE,
     status |-> "BCRA_PENDING",
     currentSituation |-> Null,
     last6MonthsWorstSituation |-> Null,
     last12MonthsWorstSituation |-> Null,
     failureReasons |->
        IF earlier = <<>> THEN <<>>
        ELSE earlier[Len(earlier)].verdict.failureReasons,
     analysisDate |-> clock]

\* The verdict object as first built
InitialAnalysis(clock) ==
    [isEligible |-> FALSE,
     status |-> "BCRA_PENDING",
     currentSituation |-> Null,
     last6MonthsWorstSituation |-> Null,
     last12MonthsWorstSituation |-> Null,
     failureReasons |-> <<>>,
     analysisDate |-> clock]

pushReason(a, motivo, valor) ==
    [a EXCEPT !.failureReasons = Append(@, Reason(motivo, valor))]

\* What the call yields when it raises instead of returning: sortedPeriods[0]
\* of an empty list is undefined, and reading its entidades is a TypeError
TypeErrorThrown == [threw |-> "TypeError"]

\* 1. Check current situation (most recent period)
checkCurrentSituation(a, sortedPeriods) ==
    IF Len(sortedPeriods) = 0 THEN TypeErrorThrown
    ELSE
    LET mostRecentPeriod == sortedPeriods[1]
        cs == getWorstSituationForPeriod(mostRecentPeriod)
        a1 == [a EXCEPT !.currentSituation = Some(cs)]
    IN  IF cs > 1 THEN pushReason(a1, "current", cs) ELSE a1

\* A 6-month check that forgets to filter the periods by the window
checkLast6Months_AllPeriods(a, sortedPeriods, clock) ==
    LET worst == MathMax(worstSituations(sortedPeriods))
        a1 == [a EXCEPT !.last6MonthsWorstSituation = Some(worst)]
    IN  IF worst > 1 THEN pushReason(a1, "last6Months", worst) ELSE a1

\* 2. Check last 6 months
checkLast6Months(a, sortedPeriods, clock) ==
    LET within(p) == isPeriodWithinMonths(p.periodo, 6, clock)
        last6MonthsPeriods == SelectSeq(sortedPeriods, within)
        worst == MathMax(worstSituations(last6MonthsPeriods))
        a1 == [a EXCEPT !.last6MonthsWorstSituation = Some(worst)]
    IN  IF Len(last6MonthsPeriods) > 0
        THEN IF worst > 1 THEN pushReason(a1, "last6Months", worst) ELSE a1
        ELSE a

\* A 12-month check with the threshold of the 6-month check
checkLast12Months_Threshold1(a, sortedPeriods, clock) ==
    LET within(p) == isPeriodWithinMonths(p.periodo, 12, clock)
        last12MonthsPeriods == SelectSeq(sortedPeriods, within)
        worst == MathMax(worstSituations(last12MonthsPeriods))
        a1 == [a EXCEPT !.last12MonthsWorstSituation = Some(worst)]
    IN  IF Len(last12MonthsPeriods) > 0
        THEN IF worst > 1 THEN pushReason(a1, "last12Months", worst) ELSE a1
        ELSE a

\* A 12-month check that forgets to filter the periods by the window
checkLast12Months_AllPeriods(a, sortedPeriods, clock) ==
    LET worst == MathMax(worstSituations(sortedPeriods))
        a1 == [a EXCEPT !.last12MonthsWorstSituation = Some(worst)]
    IN  IF worst > 2 THEN pushReason(a1, "last12Months", worst) ELSE a1

\* 3. Check last 12 months
checkLast12Months(a, sortedPeriods, clock) ==
    LET within(p) == isPeriodWithinMonths(p.periodo, 12, clock)
        last12MonthsPeriods == SelectSeq(sortedPeriods, within)
        worst == MathMax(worstSituations(last12MonthsPeriods))
        a1 == [a EXCEPT !.last12MonthsWorstSituation = Some(worst)]
    IN  IF Len(last12MonthsPeriods) > 0
        THEN IF worst > 2 THEN pushReason(a1, "last12Months", worst) ELSE a1
        ELSE a

\* A final step that derives the status from the flag before updating it
finalEligibility_StaleFlag(a) ==
    LET eligible == Len(a.failureReasons) = 0
    IN  [a EXCEPT !.isEligible = eligible,
                  !.status = IF a.isEligible THEN "BCRA_APTO" ELSE "BCRA_NO_APTO"]

\* Determine final eligibility
finalEligibility(a) ==
    LET eligible == Len(a.failureReasons) = 0
    IN  [a EXCEPT !.isEligible = eligible,
                  !.status = IF eligible THEN "BCRA_APTO" ELSE "BCRA_NO_APTO"]

\* The three checks and the final step; a check that raises ends the call
runChecks(a0, sortedPeriods, clock) ==
    LET a1 == checkCurrentSituation(a0, sortedPeriods) IN
    IF a1 = TypeErrorThrown THEN TypeErrorThrown
    ELSE finalEligibility(
             checkLast12Months(
                 checkLast6Months(a1, sortedPeriods, clock),
                 sortedPeriods, clock))

\* An analysis that goes on to the checks without looking at the list's length
analyzeHistory_NoEmptyCheck(a0, record, clock) ==
    runChecks(a0, sortPeriods(record.periodos), clock)

\* The analysis of a record that is present, from the sort on
analyzeHistory(a0, record, clock) ==
    LET sortedPeriods == sortPeriods(record.periodos) IN
    IF Len(sortedPeriods) = 0
    THEN pushReason(a0, "noPeriods", 0)
    ELSE runChecks(a0, sortedPeriods, clock)

\* A sort applied to historicalData.periodos itself
periodosAfterAnalysis_InPlace(periodos) == sortPeriods(periodos)

\* The caller's period list once the call is over: the sort works on the copy
\* [...historicalData.periodos], the list itself is only read
periodosAfterAnalysis(periodos) == periodos

\* The caller's history record once the call is over
historicalAfterAnalysis(hist) ==
    IF IsNull(hist) THEN hist
    ELSE Some([Val(hist) EXCEPT !.periodos = periodosAfterAnalysis(@)])

\* An analyzer that falls back on the current record when the history is absent
analyzeBCRAEligibility_CurrentFallback(cur, hist, clock) ==
    LET a0 == InitialAnalysis(clock) IN
    IF IsNull(cur) /\ IsNull(hist) THEN pushReason(a0, "noData", 0)
    ELSE IF IsNull(hist) THEN analyzeHistory(a0, Val(cur), clock)
    ELSE analyzeHistory(a0, Val(hist), clock)

analyzeBCRAEligibility(cur, hist, clock) ==
    LET a0 == InitialAnalysis(clock) IN
    IF IsNull(cur) /\ IsNull(hist) THEN pushReason(a0, "noData", 0)
    ELSE IF IsNull(hist) THEN pushReason(a0, "noHistorical", 0)
    ELSE analyzeHistory(a0, Val(hist), clock)

----------------------------------------------------------------------------
(* Inputs of the analyzer *)

\* Evaluation dates: March 2024 (both cut-offs fall in the previous year)
\* and September 2024 (the 6-month cut-off stays in the same year).
Clocks == {[year |-> 2024, month |-> 3], [year |-> 2024, month |-> 9]}

\* Months a bureau period is reported for
PeriodMonths == {<<2024, 1>>, <<2023, 12>>, <<2023, 9>>, <<2023, 8>>}

PeriodLabels == {periodLabel(ym[1], ym[2]) : ym \in PeriodMonths}

\* The entities reported in the periods 1..n of a record laid out by counts
RECURSIVE Total(_, _)
Total(counts, n) == IF n = 0 THEN 0 ELSE Total(counts, n - 1) + counts[n]

\* The record whose period i carries labels[i] and reports counts[i] entities,
\* their situation codes taken in turn from sits
buildRecord(labels, counts, sits) ==
    [periodos |->
        [i \in DOMAIN labels |->
            [periodo |-> labels[i],
             entidades |->
                [j \in 1..counts[i] |->
                    [situacion |-> sits[Total(counts, i - 1) + j]]]]]]

\* The record of the specification's worked example
ExampleRecord ==
    [periodos |->
        <<[periodo |-> periodLabel(2024, 1), entidades |-> <<[situacion |-> 1]>>],
          [periodo |-> periodLabel(2023, 12),
           entidades |-> <<[situacion |-> 2], [situacion |-> 3]>>]>>]

\* historicalData is a record of at most MaxPeriodos periods that reports at
\* most MaxEntidades entities, or the worked example
HistoricalInput ==
    \/ \E k \in 0..MaxPeriodos :
        \E labels \in [1..k -> PeriodLabels], counts \in [1..k -> 0..MaxEntidades] :
            /\ Total(counts, k) <= MaxEntidades
            /\ \E sits \in [1..Total(counts, k) -> 1..MaxSituacion] :
                  historicalData = Some(buildRecord(labels, counts, sits))
    \/ historicalData = Some(ExampleRecord)

\* Current-debt records: no period, or one period with one entity
CurrentRecords ==
    {[periodos |-> <<>>]} \cup
    {buildRecord(<<l>>, <<1>>, <<s>>) : l \in PeriodLabels, s \in 1..MaxSituacion}

\* The bureau client is not running
BureauIdle ==
    /\ fetchOp = "none"
    /\ cuit = <<>>
    /\ fetchPc = "idle"
    /\ requests = <<>>
    /\ outcome = Null
    /\ received = Null

\* performLoanAssessment has not been called
AssessmentIdle ==
    /\ assessPc = "idle"
    /\ assessCuit = <<>>
    /\ assessments = 0
    /\ bcraData = Null
    /\ fetchCalls = <<>>
    /\ assessmentCache = {}
    /\ assessmentResult = Null

\* isValidCuit has not been called
ValidatorIdle ==
    /\ cuitInput = <<>>
    /\ cuitAccepted = Null

\* ResultsPage is not mounted
ResultsIdle ==
    /\ rpUser = FALSE
    /\ rpHasId = FALSE
    /\ isSaved = FALSE
    /\ saveCalls = <<>>
    /\ effectRuns = 0
    /\ matchingRows = 0
    /\ insertedRows = 0

\* App shows the dashboard it starts with
AppIdle ==
    /\ currentView = "dashboard"
    /\ currentAssessment = Null
    /\ selectedAssessment = Null
    /\ currentLoanOperation = Null

\* LoanApplicationPage is not mounted: the state its next mount starts with
PageUnmounted ==
    /\ currentStage = "contact_info"
    /\ operationData = Null
    /\ isReadOnly = FALSE
    /\ loading = FALSE
    /\ submitError = FALSE

\* BackOfficePage is not mounted: the state its next mount starts with
BackOfficeUnmounted ==
    /\ backOfficeLoading = TRUE
    /\ loanOperations = {}

\* No loan operation exists and neither page of the back office is in use
WizardIdle ==
    /\ loanOperationsTable = {}
    /\ BackOfficeUnmounted
    /\ PageUnmounted
    /\ saves = <<>>
    /\ everCompleted = {}

\* None of the pages and utilities around the core is in use
UiIdle == ValidatorIdle /\ ResultsIdle /\ AppIdle /\ WizardIdle

\* No analysis is under way
AnalyzerIdle ==
    /\ currentData = Null
    /\ historicalData = Null
    /\ now = [year |-> 2024, month |-> 3]
    /\ analysis = Null
    /\ earlier = <<>>

AnalyzerInit ==
    /\ now \in Clocks
    /\ \/ /\ historicalData = Null
          /\ currentData \in {Null} \cup {Some(r) : r \in CurrentRecords}
       \/ /\ HistoricalInput
          /\ currentData \in {Null, Some([periodos |-> <<>>])}
    /\ analysis = Null
    /\ earlier = <<>>
    /\ BureauIdle
    /\ AssessmentIdle
    /\ UiIdle

\* The call analyzeBCRAEligibility(currentData, historicalData): it returns a
\* verdict (or raises) and leaves the caller's records as the code leaves them
Analyze ==
    /\ analysis = Null
    /\ analysis' = Some(analyzeBCRAEligibility(currentData, historicalData, now))
    /\ historicalData' = historicalAfterAnalysis(historicalData)
    /\ UNCHANGED <<currentData, now, earlier>>
    /\ UNCHANGED bureauVars
    /\ UNCHANGED assessVars
    /\ UNCHANGED uiVars

AnalyzerNext == Analyze

SpecAnalyzer == AnalyzerInit /\ [][AnalyzerNext]_vars

----------------------------------------------------------------------------
(* Successive calls of the analyzer *)

MaxCalls == 3         \* calls of the analyzer in one run of the program

\* Histories handed to successive calls: absent, without periods, the worked
\* example, a clean one, and one whose most recent label comes twice
RepeatHistories ==
    {Null,
     Some([periodos |-> <<>>]),
     Some(ExampleRecord),
     Some(buildRecord(<<periodLabel(2024, 1)>>, <<1>>, <<1>>)),
     Some(buildRecord(<<periodLabel(2023, 9), periodLabel(2023, 9)>>, <<0, 1>>, <<2>>))}

RepeatInit ==
    /\ now \in Clocks
    /\ currentData = Null
    /\ historicalData \in RepeatHistories
    /\ analysis = Null
    /\ earlier = <<>>
    /\ BureauIdle
    /\ AssessmentIdle
    /\ UiIdle

\* The caller keeps what the call returned and sets up the next call, for the
\* same or another taxpayer, at the same or another evaluation date
NextCall ==
    /\ analysis # Null
    /\ Len(earlier) < MaxCalls - 1
    /\ earlier' = Append(earlier, [currentData |-> currentData,
                                   historicalData |-> historicalData,
                                   now |-> now,
                                   verdict |-> Val(analysis)])
    /\ analysis' = Null
    /\ now' \in Clocks
    /\ historicalData' \in RepeatHistories
    /\ UNCHANGED currentData
    /\ UNCHANGED bureauVars
    /\ UNCHANGED assessVars
    /\ UNCHANGED uiVars

RepeatNext == Analyze \/ NextCall

SpecRepeat == RepeatInit /\ [][RepeatNext]_vars

----------------------------------------------------------------------------
(* Properties of the analyzer *)

Analyzed == analysis # Null
Verdict == Val(analysis)

HistoricalPeriods == IF IsNull(historicalData) THEN <<>> ELSE Val(historicalData).periodos

\* The calendar month a label stands for, as a count of months
MonthCount(label) ==
    LET ym == CHOOSE m \in PeriodMonths : periodLabel(m[1], m[2]) = label
    IN  ym[1] * 12 + ym[2]

NowCount == now.year * 12 + now.month

SetMax(S) == CHOOSE m \in S : \A x \in S : m >= x

\* The worst situation of a period: 1 when it reports no entity
Worst(p) ==
    IF p.entidades = <<>> THEN 1
    ELSE SetMax({p.entidades[i].situacion : i \in DOMAIN p.entidades})

\* The periods of the history that lie in the trailing window of n months
InWindow(n) ==
    {i \in DOMAIN HistoricalPeriods : MonthCount(HistoricalPeriods[i].periodo) >= NowCount - n}

\* The periods of the history that carry the greatest label
MostRecent ==
    {i \in DOMAIN HistoricalPeriods :
        \A j \in DOMAIN HistoricalPeriods :
            MonthCount(HistoricalPeriods[i].periodo) >= MonthCount(HistoricalPeriods[j].periodo)}

HasReason(motivo) ==
    \E i \in DOMAIN Verdict.failureReasons : Verdict.failureReasons[i].motivo = motivo

\* C2: with neither record the verdict is not eligible and PENDING, its three
\* situation fields are null and it gives a failure reason.
C2_NoDataIsPending ==
    (Analyzed /\ IsNull(currentData) /\ IsNull(historicalData)) =>
        /\ Verdict.isEligible = FALSE
        /\ Verdict.status = "BCRA_PENDING"
        /\ Verdict.currentSituation = Null
        /\ Verdict.last6MonthsWorstSituation = Null
        /\ Verdict.last12MonthsWorstSituation = Null
        /\ Len(Verdict.failureReasons) > 0

\* C2 happens: an analysis of two absent records has returned
C2_Witness == Analyzed /\ IsNull(currentData) /\ IsNull(historicalData)

\* C3: a current record without a history gives PENDING and not eligible,
\* whatever the current record holds.
C3_CurrentOnlyIsPending ==
    (Analyzed /\ ~IsNull(currentData) /\ IsNull(historicalData)) =>
        /\ Verdict.status = "BCRA_PENDING"
        /\ Verdict.isEligible = FALSE

\* C3 happens: the current record reports the worst situation and no history came
C3_Witness ==
    /\ Analyzed
    /\ IsNull(historicalData)
    /\ ~IsNull(currentData)
    /\ Len(Val(currentData).periodos) = 1
    /\ Val(currentData).periodos[1].entidades = <<[situacion |-> MaxSituacion]>>

\* C4: the status is PENDING exactly when the history is absent or has no
\* period; otherwise it is APTO or NO_APTO, the verdict is eligible exactly
\* when it gives no failure reason, and APTO exactly when eligible.
C4_StatusFollowsReasons ==
    Analyzed =>
        /\ Verdict.status = "BCRA_PENDING" <=> Len(HistoricalPeriods) = 0
        /\ Len(HistoricalPeriods) > 0 =>
              /\ Verdict.status \in {"BCRA_APTO", "BCRA_NO_APTO"}
              /\ Verdict.isEligible <=> Len(Verdict.failureReasons) = 0
              /\ Verdict.status = "BCRA_APTO" <=> Verdict.isEligible

\* C4 happens: a history with periods was found eligible
C4_Witness ==
    /\ Analyzed
    /\ Len(HistoricalPeriods) = MaxPeriodos
    /\ Verdict.status = "BCRA_APTO"
    /\ Verdict.failureReasons = <<>>


\* The history with its periods rearranged by the permutation f
Rearranged(f) ==
    Some([periodos |-> [i \in DOMAIN HistoricalPeriods |-> HistoricalPeriods[f[i]]]])

\* C5: every reordering of the period list gives the same currentSituation,
\* the worst situation reported under the greatest period label.
C5_OrderIndependent ==
    (Analyzed /\ Len(HistoricalPeriods) > 0) =>
        /\ \A f \in Permutations(DOMAIN HistoricalPeriods) :
              analyzeBCRAEligibility(currentData, Rearranged(f), now).currentSituation
                  = Verdict.currentSituation
        /\ Verdict.currentSituation =
              Some(SetMax({Worst(HistoricalPeriods[i]) : i \in MostRecent}))

\* C6: a period counts for the 6-month check exactly when its month is on or
\* after the evaluation month minus 6; with such periods the field is the
\* maximum of their worst situations and a reason is given exactly when it
\* exceeds 1; without any the field is null and no reason is given.
C6_SixMonthCheck ==
    (Analyzed /\ Len(HistoricalPeriods) > 0) =>
        IF InWindow(6) # {}
        THEN LET worst == SetMax({Worst(HistoricalPeriods[i]) : i \in InWindow(6)})
             IN  /\ Verdict.last6MonthsWorstSituation = Some(worst)
                 /\ HasReason("last6Months") <=> worst > 1
        ELSE /\ Verdict.last6MonthsWorstSituation = Null
             /\ ~HasReason("last6Months")

\* C6 happens: the only period in the window is the cut-off month itself, of
\* the year before the evaluation, and it fails the check
C6_Witness ==
    /\ Analyzed
    /\ now = [year |-> 2024, month |-> 3]
    /\ InWindow(6) # {}
    /\ \A i \in InWindow(6) : HistoricalPeriods[i].periodo = periodLabel(2023, 9)
    /\ \E i \in DOMAIN HistoricalPeriods : i \notin InWindow(6)
    /\ Verdict.last6MonthsWorstSituation = Some(2)
    /\ HasReason("last6Months")

\* C7: last12MonthsWorstSituation is the maximum worst situation over the
\* periods on or after the evaluation month minus 12, null without any, and
\* a 12-month reason is given exactly when it exceeds 2.
C7_TwelveMonthCheck ==
    (Analyzed /\ Len(HistoricalPeriods) > 0) =>
        IF InWindow(12) # {}
        THEN LET worst == SetMax({Worst(HistoricalPeriods[i]) : i \in InWindow(12)})
             IN  /\ Verdict.last12MonthsWorstSituation = Some(worst)
                 /\ HasReason("last12Months") <=> worst > 2
        ELSE /\ Verdict.last12MonthsWorstSituation = Null
             /\ ~HasReason("last12Months")

\* C7 happens: a situation 2 inside the 12-month window and outside the
\* 6-month one leaves the verdict eligible
C7_Witness ==
    /\ Analyzed
    /\ Verdict.last12MonthsWorstSituation = Some(2)
    /\ Verdict.last6MonthsWorstSituation = Null
    /\ Verdict.status = "BCRA_APTO"
    /\ ~HasReason("last12Months")

\* C8: when the most recent month reports worst situation 1 and no period of
\* the trailing 12 months reports more than 1, the verdict is APTO, eligible
\* and without failure reasons.
C8_CleanHistoryIsApto ==
    (/\ Analyzed
     /\ Len(HistoricalPeriods) > 0
     /\ \A i \in MostRecent : Worst(HistoricalPeriods[i]) = 1
     /\ \A i \in InWindow(12) : Worst(HistoricalPeriods[i]) <= 1) =>
        /\ Verdict.status = "BCRA_APTO"
        /\ Verdict.isEligible = TRUE
        /\ Verdict.failureReasons = <<>>

\* C8 happens: a clean trailing year, with a worse period before it
C8_Witness ==
    /\ Analyzed
    /\ InWindow(12) # {}
    /\ \A i \in MostRecent : Worst(HistoricalPeriods[i]) = 1
    /\ \A i \in InWindow(12) : Worst(HistoricalPeriods[i]) <= 1
    /\ \E i \in DOMAIN HistoricalPeriods :
          i \notin InWindow(12) /\ Worst(HistoricalPeriods[i]) > 2
    /\ Verdict.status = "BCRA_APTO"

\* The worked example is under analysis, its two periods in either order
ExampleAnalyzed ==
    /\ Analyzed
    /\ now = [year |-> 2024, month |-> 3]
    /\ Len(HistoricalPeriods) = 2
    /\ \E f \in Permutations(1..2) :
          HistoricalPeriods = [i \in 1..2 |-> ExampleRecord.periodos[f[i]]]

\* C9: in March 2024, periods 202401 with situations [1] and 202312 with
\* situations [2,3] give currentSituation 1 without a current-situation
\* failure, a 6-month worst of 3, NO_APTO and a 6-month failure reason.
C9_WorkedExample ==
    ExampleAnalyzed =>
        /\ Verdict.currentSituation = Some(1)
        /\ ~HasReason("current")
        /\ Verdict.last6MonthsWorstSituation = Some(3)
        /\ Verdict.status = "BCRA_NO_APTO"
        /\ Verdict.isEligible = FALSE
        /\ HasReason("last6Months")

\* C9 happens: the worked example has been analysed as the specification lists it
C9_Witness == ExampleAnalyzed /\ historicalData = Some(ExampleRecord)

\* The history with one reported entity of situation 1 in every period that
\* reports none
Filled ==
    Some([periodos |->
        [i \in DOMAIN HistoricalPeriods |->
            IF HistoricalPeriods[i].entidades = <<>>
            THEN [HistoricalPeriods[i] EXCEPT !.entidades = <<[situacion |-> 1]>>]
            ELSE HistoricalPeriods[i]]])

EmptyPeriods == {i \in DOMAIN HistoricalPeriods : HistoricalPeriods[i].entidades = <<>>}

\* C10: a period without entities counts as worst situation 1 wherever it
\* takes part: the verdict is the one of the same history with a situation 1
\* reported in that period, so the period yields no null; and a history of
\* such periods alone has currentSituation 1 and no failure reason.
C10_EmptyPeriodIsNormal ==
    (Analyzed /\ EmptyPeriods # {}) =>
        /\ Verdict = analyzeBCRAEligibility(currentData, Filled, now)
        /\ Verdict.currentSituation # Null
        /\ (EmptyPeriods \cap InWindow(6) # {}) =>
              Verdict.last6MonthsWorstSituation # Null
        /\ (EmptyPeriods \cap InWindow(12) # {}) =>
              Verdict.last12MonthsWorstSituation # Null
        /\ (EmptyPeriods = DOMAIN HistoricalPeriods) =>
              /\ Verdict.currentSituation = Some(1)
              /\ Verdict.failureReasons = <<>>
              /\ Verdict.last6MonthsWorstSituation \in {Null, Some(1)}
              /\ Verdict.last12MonthsWorstSituation \in {Null, Some(1)}

\* C10 happens: the only period reports no entity and lies in both windows
C10_Witness ==
    /\ Analyzed
    /\ Len(HistoricalPeriods) = 1
    /\ EmptyPeriods = {1}
    /\ Verdict.currentSituation = Some(1)
    /\ Verdict.last6MonthsWorstSituation = Some(1)
    /\ Verdict.last12MonthsWorstSituation = Some(1)
    /\ Verdict.status = "BCRA_APTO"

\* The periods whose label another period of the history carries too
Duplicated ==
    {i \in DOMAIN HistoricalPeriods :
        \E j \in DOMAIN HistoricalPeriods :
            j # i /\ HistoricalPeriods[j].periodo = HistoricalPeriods[i].periodo}

\* C11: when two periods carry the same label, the entities of both count for
\* every worst-situation value of that label: currentSituation when the label
\* is the most recent one, the 6- and 12-month maxima when it is in the window.
C11_DuplicateLabelsContribute ==
    (Analyzed /\ Duplicated # {}) =>
        /\ (Duplicated \cap MostRecent # {}) =>
              Verdict.currentSituation =
                  Some(SetMax({Worst(HistoricalPeriods[i]) : i \in MostRecent}))
        /\ (Duplicated \cap InWindow(6) # {}) =>
              Verdict.last6MonthsWorstSituation =
                  Some(SetMax({Worst(HistoricalPeriods[i]) : i \in InWindow(6)}))
        /\ (Duplicated \cap InWindow(12) # {}) =>
              Verdict.last12MonthsWorstSituation =
                  Some(SetMax({Worst(HistoricalPeriods[i]) : i \in InWindow(12)}))

\* The fields of a verdict other than analysisDate
VerdictFields(v) ==
    <<v.isEligible, v.status, v.currentSituation, v.last6MonthsWorstSituation,
      v.last12MonthsWorstSituation, v.failureReasons>>

\* The earlier calls made with the records and the evaluation date of this one
SameInputs ==
    {i \in DOMAIN earlier :
        /\ earlier[i].currentData = currentData
        /\ earlier[i].historicalData = historicalData
        /\ earlier[i].now = now}

\* C12: a call returns the isEligible, status, situation fields and failure
\* reasons that every earlier call with the same records and the same
\* evaluation date returned, whatever was analysed in between.
C12_Deterministic ==
    Analyzed =>
        \A i \in SameInputs : VerdictFields(earlier[i].verdict) = VerdictFields(Verdict)

\* C12 happens: a clean history is analysed again after a call that gave reasons
C12_Witness ==
    /\ Analyzed
    /\ Len(earlier) = 2
    /\ 1 \in SameInputs
    /\ earlier[2].historicalData # historicalData
    /\ earlier[2].verdict.failureReasons # <<>>
    /\ Verdict.failureReasons = <<>>
    /\ Verdict.status = "BCRA_APTO"

\* C13: the call leaves the records it is given as they were: the period list
\* keeps its order and content, and so does every entity list.
C13_InputsNotMutated ==
    [][(analysis = Null /\ analysis' # Null) =>
          (currentData' = currentData /\ historicalData' = historicalData)]_vars

\* C13 happens: a call has returned and its period list is still out of order
C13_Witness ==
    /\ Analyzed
    /\ Len(HistoricalPeriods) = MaxPeriodos
    /\ sortPeriods(HistoricalPeriods) # HistoricalPeriods

VerdictStatuses == {"BCRA_PENDING", "BCRA_APTO", "BCRA_NO_APTO"}

\* C14: for every combination of absent and present records the call returns
\* a verdict, it never raises; that includes a history without periods and
\* periods without entities.
C14_Total ==
    /\ analysis = Null =>
          analyzeBCRAEligibility(currentData, historicalData, now) # TypeErrorThrown
    /\ Analyzed =>
          /\ Verdict # TypeErrorThrown
          /\ Verdict.status \in VerdictStatuses
          /\ Verdict.isEligible \in BOOLEAN

\* C14 happens: a history without periods, and one whose periods report no
\* entity, have been analysed
C14_Witness ==
    /\ Analyzed
    /\ ~IsNull(historicalData)
    /\ \/ HistoricalPeriods = <<>>
       \/ /\ Len(HistoricalPeriods) = MaxPeriodos
          /\ \A i \in DOMAIN HistoricalPeriods : HistoricalPeriods[i].entidades = <<>>

----------------------------------------------------------------------------
(* Bureau client *)

\* cuit.replace(/\D/g, '')
isDigit(c) == c \in DigitChars
stripNonDigits(s) == SelectSeq(s, isDigit)

\* A length test that lets identifiers of more than 11 digits through
hasElevenDigits_AtLeast(cleanCuit) == Len(cleanCuit) >= 11

\* The test of cleanCuit.length !== 11, negated: the identifier is accepted
hasElevenDigits(cleanCuit) == Len(cleanCuit) = 11

\* `${BCRA_API_BASE_URL}/Deudas/${cleanCuit}` and .../Deudas/Historicas/...
requestUrl(op, cleanCuit) ==
    [path |-> IF op = "debt" THEN "/Deudas/" ELSE "/Deudas/Historicas/",
     cuit |-> cleanCuit]

BCRAApiError(message, status, errorMessages) ==
    [name |-> "BCRAApiError", message |-> message, status |-> status,
     errorMessages |-> errorMessages]

Resolved(results) == Some([ok |-> TRUE, value |-> results])
Rejected(error) == Some([ok |-> FALSE, error |-> error])

\* data.errorMessages || fallback: an array, even an empty one, is truthy
orDefault(errorMessages, fallback) ==
    IF IsNull(errorMessages) THEN fallback ELSE Val(errorMessages)

invalidIdentifierError ==
    BCRAApiError("CUIT must have exactly 11 digits", 400,
        <<"Parametro erroneo: Ingresar 11 digitos para realizar la consulta.">>)

\* A switch whose default branch reports the server-error status
handleResponse_DefaultAs500(op, data) ==
    IF data.status = 200
    THEN IF ~IsNull(data.results)
         THEN Resolved(Val(data.results))
         ELSE Rejected(BCRAApiError("No results in successful response", 200, <<>>))
    ELSE IF data.status = 400
    THEN Rejected(BCRAApiError("Invalid CUIT format", 400,
             orDefault(data.errorMessages,
                 <<"Parametro erroneo: Ingresar 11 digitos para realizar la consulta.">>)))
    ELSE IF data.status = 404
    THEN Rejected(BCRAApiError(
             IF op = "debt" THEN "No data found for the provided CUIT"
             ELSE "No historical data found for the provided CUIT",
             404,
             orDefault(data.errorMessages,
                 <<"No se encontro datos para la identificacion ingresada.">>)))
    ELSE Rejected(BCRAApiError("BCRA server error", 500,
             orDefault(data.errorMessages,
                 <<"Se produjo un error al ejecutar la accion.">>)))

\* switch (data.status) of either operation
handleResponse(op, data) ==
    IF data.status = 200
    THEN IF ~IsNull(data.results)
         THEN Resolved(Val(data.results))
         ELSE Rejected(BCRAApiError("No results in successful response", 200, <<>>))
    ELSE IF data.status = 400
    THEN Rejected(BCRAApiError("Invalid CUIT format", 400,
             orDefault(data.errorMessages,
                 <<"Parametro erroneo: Ingresar 11 digitos para realizar la consulta.">>)))
    ELSE IF data.status = 404
    THEN Rejected(BCRAApiError(
             IF op = "debt" THEN "No data found for the provided CUIT"
             ELSE "No historical data found for the provided CUIT",
             404,
             orDefault(data.errorMessages,
                 <<"No se encontro datos para la identificacion ingresada.">>)))
    ELSE IF data.status = 500
    THEN Rejected(BCRAApiError("BCRA server error", 500,
             orDefault(data.errorMessages,
                 <<"Se produjo un error al ejecutar la accion.">>)))
    \* the message also spells out data.status, which the status field carries
    ELSE Rejected(BCRAApiError("Unexpected response status", data.status,
             orDefault(data.errorMessages, <<>>)))

\* A catch block that throws on what it caught
handleFailure_Rethrow(error) ==
    Rejected([name |-> IF error.isTypeError THEN "TypeError" ELSE "SyntaxError",
              message |-> IF error.mentionsFetch THEN "Failed to fetch" ELSE "other"])

\* The catch block, for an error that is no BCRAApiError
handleFailure(error) ==
    IF error.isTypeError /\ error.mentionsFetch
    THEN Rejected(BCRAApiError("Network error: Unable to connect to BCRA API", 0,
             <<"Error de conexion con la API del BCRA. Verifique su conexion a internet.">>))
    ELSE Rejected(BCRAApiError("Unexpected error occurred", 0,
             <<"Error inesperado al consultar la API del BCRA.">>))

----------------------------------------------------------------------------
(* Inputs of the bureau client *)

\* The digits of identifiers: an identifier of the mock client table, repeated
SeedCuit == <<"2", "0", "1", "2", "3", "4", "5", "6", "7", "8", "1">>

digitsOfLength(n) == [i \in 1..n |-> SeedCuit[((i - 1) % Len(SeedCuit)) + 1]]

\* XX-XXXXXXXX-X, as formatCuit lays an identifier out, without its cut at 11
dashed(digits) ==
    IF Len(digits) <= 2 THEN digits
    ELSE IF Len(digits) <= 10
    THEN SubSeq(digits, 1, 2) \o <<"-">> \o SubSeq(digits, 3, Len(digits))
    ELSE SubSeq(digits, 1, 2) \o <<"-">> \o SubSeq(digits, 3, 10) \o <<"-">>
         \o SubSeq(digits, 11, Len(digits))

CuitInputs ==
    UNION {{digitsOfLength(n),
            dashed(digitsOfLength(n)),
            <<" ">> \o digitsOfLength(n) \o <<"a", ".">>} : n \in 0..MaxDigits}

BureauStatuses == {200, 400, 404, 500, 503}

BureauResults == {[periodos |-> <<>>], ExampleRecord}

Envelopes ==
    [status : BureauStatuses,
     results : {Null} \cup {Some(r) : r \in BureauResults},
     errorMessages : {Null, Some(<<>>), Some(<<"mensaje del BCRA">>)}]

\* What fetch() or response.json() can throw.  fetch() rejects with a TypeError
\* when no response is reachable; the wording of its message is up to the
\* engine ("Failed to fetch", "fetch failed", "Load failed").  response.json()
\* throws a SyntaxError on a body that is no JSON.
ThrownErrors ==
    {[cause |-> "transport", isTypeError |-> TRUE, mentionsFetch |-> TRUE],
     [cause |-> "transport", isTypeError |-> TRUE, mentionsFetch |-> FALSE],
     [cause |-> "body", isTypeError |-> FALSE, mentionsFetch |-> FALSE]}

BureauInit ==
    /\ fetchOp \in {"debt", "historical"}
    /\ cuit \in CuitInputs
    /\ fetchPc = "start"
    /\ requests = <<>>
    /\ outcome = Null
    /\ received = Null
    /\ AnalyzerIdle
    /\ AssessmentIdle
    /\ UiIdle

\* The identifier does not clean to 11 digits: throw before the try block
FetchReject ==
    /\ fetchPc = "start"
    /\ ~hasElevenDigits(stripNonDigits(cuit))
    /\ outcome' = Rejected(invalidIdentifierError)
    /\ fetchPc' = "done"
    /\ UNCHANGED <<fetchOp, cuit, requests, received>>
    /\ UNCHANGED analyzerVars
    /\ UNCHANGED assessVars
    /\ UNCHANGED uiVars

\* fetch(url, ...) is called and the function waits for it
FetchSend ==
    /\ fetchPc = "start"
    /\ hasElevenDigits(stripNonDigits(cuit))
    /\ requests' = Append(requests, requestUrl(fetchOp, stripNonDigits(cuit)))
    /\ fetchPc' = "awaiting"
    /\ UNCHANGED <<fetchOp, cuit, outcome, received>>
    /\ UNCHANGED analyzerVars
    /\ UNCHANGED assessVars
    /\ UNCHANGED uiVars

\* The response arrives and its body parses to an envelope
FetchRespond ==
    /\ fetchPc = "awaiting"
    /\ \E data \in Envelopes :
          /\ received' = Some([envelope |-> TRUE, data |-> data])
          /\ outcome' = handleResponse(fetchOp, data)
    /\ fetchPc' = "done"
    /\ UNCHANGED <<fetchOp, cuit, requests>>
    /\ UNCHANGED analyzerVars
    /\ UNCHANGED assessVars
    /\ UNCHANGED uiVars

\* fetch() or response.json() throws
FetchThrow ==
    /\ fetchPc = "awaiting"
    /\ \E error \in ThrownErrors :
          /\ received' = Some([envelope |-> FALSE, error |-> error])
          /\ outcome' = handleFailure(error)
    /\ fetchPc' = "done"
    /\ UNCHANGED <<fetchOp, cuit, requests>>
    /\ UNCHANGED analyzerVars
    /\ UNCHANGED assessVars
    /\ UNCHANGED uiVars

BureauNext == FetchReject \/ FetchSend \/ FetchRespond \/ FetchThrow

SpecBureau == BureauInit /\ [][BureauNext]_vars

----------------------------------------------------------------------------
(* Properties of the bureau client *)

\* The number of decimal digits in a string
DigitCount(s) == Cardinality({i \in DOMAIN s : s[i] \in DigitChars})

FetchRunning == fetchOp \in {"debt", "historical"}

\* C1: an identifier that does not hold exactly 11 digits makes either fetch
\* operation fail with the InvalidIdentifier error (status 400), and no
\* request has gone out, neither when it fails nor before.
C1_InvalidIdentifierBeforeNetwork ==
    (FetchRunning /\ DigitCount(cuit) # 11) =>
        /\ requests = <<>>
        /\ fetchPc \in {"start", "done"}
        /\ fetchPc = "done" =>
              /\ outcome # Null
              /\ ~Val(outcome).ok
              /\ Val(outcome).error.name = "BCRAApiError"
              /\ Val(outcome).error.status = 400
              /\ Val(outcome).error.message = "CUIT must have exactly 11 digits"

\* C1 happens: the historical fetch has rejected a dashed identifier of 12 digits
C1_Witness ==
    /\ fetchOp = "historical"
    /\ fetchPc = "done"
    /\ DigitCount(cuit) = 12
    /\ Len(cuit) > 12
    /\ ~Val(outcome).ok
    /\ requests = <<>>

FetchDone == FetchRunning /\ fetchPc = "done"

\* The promise was rejected with a BCRAApiError of this message and status
FailedWith(message, status) ==
    /\ outcome # Null
    /\ ~Val(outcome).ok
    /\ Val(outcome).error.name = "BCRAApiError"
    /\ Val(outcome).error.message = message
    /\ Val(outcome).error.status = status

\* The envelope the bureau answered with
Answered == received # Null /\ Val(received).envelope
Answer == Val(received).data

\* The bureau's messages, when it sent any, are the messages of the error
CarriesBureauMessages ==
    ~IsNull(Answer.errorMessages) =>
        Val(outcome).error.errorMessages = Val(Answer.errorMessages)

NotFoundMessage ==
    IF fetchOp = "debt" THEN "No data found for the provided CUIT"
    ELSE "No historical data found for the provided CUIT"

\* C15: for a valid identifier and bureau status s, a fetch returns the result
\* payload unchanged when s = 200 with a payload; fails with NotFound when
\* s = 404; with InvalidIdentifier and the bureau's messages when s = 400; with
\* UpstreamUnavailable when s = 500; and for any other s with
\* UnexpectedResponse carrying the raw status s and the bureau's messages.
C15_StatusMapping ==
    (FetchDone /\ Answered) =>
        /\ DigitCount(cuit) = 11
        /\ (Answer.status = 200 /\ ~IsNull(Answer.results)) =>
              outcome = Resolved(Val(Answer.results))
        /\ Answer.status = 404 => FailedWith(NotFoundMessage, 404)
        /\ Answer.status = 400 =>
              FailedWith("Invalid CUIT format", 400) /\ CarriesBureauMessages
        /\ Answer.status = 500 => FailedWith("BCRA server error", 500)
        /\ Answer.status \notin {200, 400, 404, 500} =>
              /\ FailedWith("Unexpected response status", Answer.status)
              /\ CarriesBureauMessages
              /\ IsNull(Answer.errorMessages) => Val(outcome).error.errorMessages = <<>>

\* C15 happens: the bureau answered 503 with a message of its own to the
\* historical fetch of a dashed identifier
C15_Witness ==
    /\ FetchDone
    /\ Answered
    /\ fetchOp = "historical"
    /\ Len(cuit) = 13
    /\ Answer.status = 503
    /\ Answer.errorMessages = Some(<<"mensaje del BCRA">>)
    /\ Val(outcome).error.status = 503

\* No response was reachable: fetch() itself was rejected
TransportFailed ==
    received # Null /\ ~Val(received).envelope /\ Val(received).error.cause = "transport"

ConnectionDiagnostic ==
    <<"Error de conexion con la API del BCRA. Verifique su conexion a internet.">>

\* C16: when no response is reachable, either fetch fails with NetworkError,
\* status 0 and the connection diagnostic, and with no other kind of error.
C16_TransportFailureIsNetworkError ==
    (FetchDone /\ TransportFailed) =>
        /\ FailedWith("Network error: Unable to connect to BCRA API", 0)
        /\ Val(outcome).error.errorMessages = ConnectionDiagnostic

IsStringList(xs) == DOMAIN xs = 1..Len(xs) /\ \A i \in DOMAIN xs : xs[i] \in STRING

\* C17: a fetch that is over has settled, and every failure (identifier
\* refused, any bureau status, 200 without results, body that does not parse,
\* no response reachable) is a BCRAApiError with a status code and a list of
\* diagnostic strings.
C17_FailuresAreTyped ==
    FetchDone =>
        /\ outcome # Null
        /\ ~Val(outcome).ok =>
              /\ Val(outcome).error.name = "BCRAApiError"
              /\ Val(outcome).error.status \in Nat
              /\ Val(outcome).error.message \in STRING
              /\ IsStringList(Val(outcome).error.errorMessages)

\* C17 happens: the body of the bureau's response did not parse
C17_Witness ==
    /\ FetchDone
    /\ received # Null
    /\ ~Val(received).envelope
    /\ Val(received).error.cause = "body"
    /\ ~Val(outcome).ok
    /\ Val(outcome).error.status = 0
    /\ Val(outcome).error.errorMessages # <<>>

----------------------------------------------------------------------------
(* CUIT validation: src/utils/cuit.ts *)

\* validateCuitFormat
validateCuitFormat(rawCuit) == Len(stripNonDigits(rawCuit)) = 11

multipliers == <<5, 4, 3, 2, 7, 6, 5, 4, 3, 2>>

\* cleanCuit.split('').map(Number)
digitsOf(cleanCuit) == [i \in DOMAIN cleanCuit |-> DigitValue[cleanCuit[i]]]

\* The loop over the first ten digits
RECURSIVE weightedSum(_, _)
weightedSum(digits, n) ==
    IF n = 0 THEN 0 ELSE weightedSum(digits, n - 1) + digits[n] * multipliers[n]

\* remainder < 2 ? remainder : 11 - remainder
checkDigitOf(remainder) == IF remainder < 2 THEN remainder ELSE 11 - remainder

validateCuitChecksum(rawCuit) ==
    LET cleanCuit == stripNonDigits(rawCuit) IN
    IF Len(cleanCuit) # 11 THEN FALSE
    ELSE LET digits == digitsOf(cleanCuit)
             remainder == weightedSum(digits, 10) % 11
         IN  checkDigitOf(remainder) = digits[11]

isValidCuit(rawCuit) == validateCuitFormat(rawCuit) /\ validateCuitChecksum(rawCuit)

\* Identifiers typed into the form: a prefix 20 or 27, six fixed digits, two
\* digits and a verifier that take every value; plain and as formatCuit lays
\* them out; and identifiers of 10 and 12 digits
CuitPrefixes == {<<"2", "0">>, <<"2", "7">>}

TypedCuits ==
    LET full == {pre \o <<"0", "0", "0", "0", "0", "0">> \o <<DigitChar[a + 1], DigitChar[b + 1], DigitChar[c + 1]>> :
                    pre \in CuitPrefixes, a \in 0..9, b \in 0..9, c \in 0..9}
    IN  full \cup {dashed(d) : d \in full}
             \cup {SubSeq(d, 1, 10) : d \in full}
             \cup {d \o <<"1">> : d \in full}

ValidatorInit ==
    /\ cuitInput \in TypedCuits
    /\ cuitAccepted = Null
    /\ AnalyzerIdle
    /\ BureauIdle
    /\ AssessmentIdle
    /\ ResultsIdle
    /\ AppIdle
    /\ WizardIdle

\* The call isValidCuit(cuit) of AssessmentPage.handleSubmit
ValidateCuit ==
    /\ cuitAccepted = Null
    /\ cuitAccepted' = Some(isValidCuit(cuitInput))
    /\ UNCHANGED cuitInput
    /\ UNCHANGED <<analyzerVars, bureauVars, assessVars>>
    /\ UNCHANGED <<resultsVars, appVars, wizardVars>>

ValidatorNext == ValidateCuit

SpecValidator == ValidatorInit /\ [][ValidatorNext]_vars

\* The verifier digit of the official algorithm for the first ten digits:
\* v = 11 - (sum mod 11), 11 standing for 0, and none when v = 10
OfficialVerifier(digits) ==
    LET v == 11 - (weightedSum(digits, 10) % 11)
    IN  IF v = 11 THEN Some(0) ELSE IF v = 10 THEN Null ELSE Some(v)

\* C25: isValidCuit accepts an input exactly when it strips to 11 digits and
\* its 11th digit is the official verifier of the first ten; an identifier
\* whose verifier would be 10 is rejected.
C25_OfficialChecksum ==
    cuitAccepted # Null =>
        (Val(cuitAccepted) <=>
            /\ DigitCount(cuitInput) = 11
            /\ OfficialVerifier(digitsOf(stripNonDigits(cuitInput)))
                  = Some(digitsOf(stripNonDigits(cuitInput))[11]))

----------------------------------------------------------------------------
(* ResultsPage: saving the assessment shown *)

MaxEffectRuns == 3    \* runs of the effect of ResultsPage while it is mounted

\* if (user && assessment.client_cuit && !assessment.id && !isSaved)
effectSaves(user, hasId, saved) == user /\ ~hasId /\ ~saved

\* if (!user || isSaved) return, at the head of saveAssessment
saveProceeds(user, saved) == ~(~user \/ saved)

\* The page is mounted: its useAuth() starts without a user, the assessment
\* comes with or without an id, the table holds a matching row or none
ResultsInit ==
    /\ rpUser = FALSE
    /\ rpHasId \in BOOLEAN
    /\ isSaved = FALSE
    /\ saveCalls = <<>>
    /\ effectRuns = 0
    /\ matchingRows \in {0, 1}
    /\ insertedRows = 0
    /\ AnalyzerIdle
    /\ BureauIdle
    /\ AssessmentIdle
    /\ ValidatorIdle
    /\ AppIdle
    /\ WizardIdle

\* The frame of every step of ResultsPage
ResultsFrame ==
    UNCHANGED <<analyzerVars, bureauVars, assessVars, validatorVars, appVars,
                wizardVars>>

\* The effect runs: on mount, and after a render in which user, assessment or
\* isSaved changed identity (useAuth builds a new user object for the session
\* it finds and for every SIGNED_IN and TOKEN_REFRESHED event).  It calls
\* saveAssessment, which goes as far as sending the existence check.
EffectRun ==
    /\ effectRuns < MaxEffectRuns
    /\ effectRuns' = effectRuns + 1
    /\ rpUser' \in {rpUser, TRUE}
    /\ saveCalls' =
          IF effectSaves(rpUser', rpHasId, isSaved) /\ saveProceeds(rpUser', isSaved)
          THEN Append(saveCalls, "checking")
          ELSE saveCalls
    /\ UNCHANGED <<rpHasId, isSaved, matchingRows, insertedRows>>
    /\ ResultsFrame

\* The existence check answers: maybeSingle gives an error for several rows,
\* the row for one, null for none; with no row the insert is sent
SaveChecked ==
    /\ \E i \in DOMAIN saveCalls :
          /\ saveCalls[i] = "checking"
          /\ IF matchingRows > 1
             THEN saveCalls' = [saveCalls EXCEPT ![i] = "failed"] /\ UNCHANGED isSaved
             ELSE IF matchingRows = 1
             THEN saveCalls' = [saveCalls EXCEPT ![i] = "done"] /\ isSaved' = TRUE
             ELSE saveCalls' = [saveCalls EXCEPT ![i] = "inserting"] /\ UNCHANGED isSaved
    /\ UNCHANGED <<rpUser, rpHasId, effectRuns, matchingRows, insertedRows>>
    /\ ResultsFrame

\* The insert answers with the new row: setIsSaved(true)
SaveInserted ==
    /\ \E i \in DOMAIN saveCalls :
          /\ saveCalls[i] = "inserting"
          /\ saveCalls' = [saveCalls EXCEPT ![i] = "done"]
    /\ matchingRows' = matchingRows + 1
    /\ insertedRows' = insertedRows + 1
    /\ isSaved' = TRUE
    /\ UNCHANGED <<rpUser, rpHasId, effectRuns>>
    /\ ResultsFrame

\* The existence check or the insert answers with an error: it is thrown,
\* caught and logged, isSaved stays as it is
SaveFailed ==
    /\ \E i \in DOMAIN saveCalls :
          /\ saveCalls[i] \in {"checking", "inserting"}
          /\ saveCalls' = [saveCalls EXCEPT ![i] = "failed"]
    /\ UNCHANGED <<rpUser, rpHasId, isSaved, effectRuns, matchingRows, insertedRows>>
    /\ ResultsFrame

ResultsNext == EffectRun \/ SaveChecked \/ SaveInserted \/ SaveFailed

SpecResults == ResultsInit /\ [][ResultsNext]_vars

\* C27: for an assessment without an id at most one row is inserted, however
\* the runs of the effect interleave with the existence check and the insert;
\* an assessment that has an id is never inserted.
C27_AtMostOneInsert ==
    /\ insertedRows <= 1
    /\ rpHasId => insertedRows = 0

----------------------------------------------------------------------------
(* App: the views and what each is handed *)

MaxClients == 2       \* assessments the advisor has saved, all of them approved

Clients == 1..MaxClients

\* An assessment as the pages pass it around: a saved one carries its id,
\* the Partial<Assessment> of AssessmentPage.onComplete carries none
savedAssessment(id) == [id |-> Some(id)]

partialAssessment == [id |-> Null]

stages == <<"contact_info", "documents", "veraz_data", "verification">>

stageIndex(stage) == CHOOSE i \in DOMAIN stages : stages[i] = stage

\* What a row of loan_operations holds of status and stage once a save of the
\* wizard has written it: the update of createOrUpdateOperation writes
\* 'completed' with the stage 'verification' and 'in_progress' with the others
RowStates ==
    {[status |-> IF stages[i] = "verification" THEN "completed" ELSE "in_progress",
      current_stage |-> stages[i]] : i \in DOMAIN stages}

operationRow(id, assessmentId, state) ==
    [id |-> id, assessment_id |-> assessmentId, status |-> state.status,
     current_stage |-> state.current_stage]

\* The tables the program can start from: each client has at most one
\* operation, numbered after the client
TablesAtRest ==
    {{operationRow(c, c, f[c]) : c \in owners} :
        owners \in SUBSET Clients, f \in [Clients -> RowStates]}

handleNewAssessment ==
    /\ currentAssessment' = Null
    /\ selectedAssessment' = Null
    /\ currentView' = "assessment"
    /\ UNCHANGED currentLoanOperation

handleAssessmentComplete(assessment) ==
    /\ currentAssessment' = Some(assessment)
    /\ selectedAssessment' = Null
    /\ currentView' = "results"
    /\ UNCHANGED currentLoanOperation

handleViewAssessment(assessment) ==
    /\ selectedAssessment' = Some(assessment)
    /\ currentAssessment' = Some(assessment)
    /\ currentView' = "results"
    /\ UNCHANGED currentLoanOperation

handleBackToDashboard ==
    /\ currentAssessment' = Null
    /\ selectedAssessment' = Null
    /\ currentLoanOperation' = Null
    /\ currentView' = "dashboard"

handleBackToAssessment ==
    /\ currentView' = "assessment"
    /\ UNCHANGED <<currentAssessment, selectedAssessment, currentLoanOperation>>

handleGoToBackOffice ==
    /\ currentView' = "backoffice"
    /\ UNCHANGED <<currentAssessment, selectedAssessment, currentLoanOperation>>

handleStartLoanApplication(assessment) ==
    /\ selectedAssessment' = Some(assessment)
    /\ currentLoanOperation' = Null
    /\ currentView' = "loan-application"
    /\ UNCHANGED currentAssessment

handleViewLoanOperation(operation) ==
    /\ currentLoanOperation' = Some(operation)
    /\ currentView' = "loan-application"
    /\ UNCHANGED <<currentAssessment, selectedAssessment>>

handleBackToBackOffice ==
    /\ currentLoanOperation' = Null
    /\ selectedAssessment' = Null
    /\ currentView' = "backoffice"
    /\ UNCHANGED currentAssessment

\* loanOperations.some(op => op.assessment_id === assessmentId)
hasAnyOperation(list, assessmentId) ==
    \E op \in list : op.assessment_id = assessmentId

\* The app starts on the dashboard; the table holds what earlier sessions left
AppInit ==
    /\ AppIdle
    /\ loanOperationsTable \in TablesAtRest
    /\ BackOfficeUnmounted
    /\ PageUnmounted
    /\ saves = <<>>
    /\ everCompleted = {}
    /\ AnalyzerIdle
    /\ BureauIdle
    /\ AssessmentIdle
    /\ ValidatorIdle
    /\ ResultsIdle

\* The frame of every step of App: no page writes to the table here, so the
\* list BackOfficePage fetches is the table
AppFrame ==
    UNCHANGED <<analyzerVars, bureauVars, assessVars, validatorVars,
                resultsVars, wizardVars>>

\* DashboardPage: onNewAssessment
NewAssessment ==
    /\ currentView = "dashboard"
    /\ handleNewAssessment
    /\ AppFrame

\* DashboardPage: onViewAssessment with one of the saved assessments
ViewAssessment ==
    /\ currentView = "dashboard"
    /\ \E c \in Clients : handleViewAssessment(savedAssessment(c))
    /\ AppFrame

\* AssessmentPage: onComplete with the assessment just made
AssessmentComplete ==
    /\ currentView = "assessment"
    /\ handleAssessmentComplete(partialAssessment)
    /\ AppFrame

\* AssessmentPage: onBack
AssessmentBack ==
    /\ currentView = "assessment"
    /\ handleBackToDashboard
    /\ AppFrame

\* ResultsPage: onBack={selectedAssessment ? handleBackToDashboard : handleBackToAssessment}
ResultsBack ==
    /\ currentView = "results"
    /\ currentAssessment # Null
    /\ IF selectedAssessment # Null THEN handleBackToDashboard ELSE handleBackToAssessment
    /\ AppFrame

\* ResultsPage: onDashboard
ResultsDashboard ==
    /\ currentView = "results"
    /\ currentAssessment # Null
    /\ handleBackToDashboard
    /\ AppFrame

\* Header: onBackOfficeClick, offered over every view
GoToBackOffice ==
    /\ handleGoToBackOffice
    /\ AppFrame

\* BackOfficePage: onBack
BackOfficeBack ==
    /\ currentView = "backoffice"
    /\ handleBackToDashboard
    /\ AppFrame

\* BackOfficePage: 'Iniciar', offered for an approved assessment without operation
StartLoanApplication ==
    /\ currentView = "backoffice"
    /\ \E c \in Clients :
          /\ ~hasAnyOperation(loanOperationsTable, c)
          /\ handleStartLoanApplication(savedAssessment(c))
    /\ AppFrame

\* BackOfficePage: onViewLoanOperation with an operation of the list
ViewLoanOperation ==
    /\ currentView = "backoffice"
    /\ \E op \in loanOperationsTable : handleViewLoanOperation(op)
    /\ AppFrame

\* LoanApplicationPage: onBack and onComplete
LoanApplicationBack ==
    /\ currentView = "loan-application"
    /\ handleBackToBackOffice
    /\ AppFrame

AppNext ==
    \/ NewAssessment
    \/ ViewAssessment
    \/ AssessmentComplete
    \/ AssessmentBack
    \/ ResultsBack
    \/ ResultsDashboard
    \/ GoToBackOffice
    \/ BackOfficeBack
    \/ StartLoanApplication
    \/ ViewLoanOperation
    \/ LoanApplicationBack

SpecApp == AppInit /\ [][AppNext]_vars

\* C29: whenever the loan-application view shows an existing operation, the
\* assessment handed to LoanApplicationPage with it is null or the assessment
\* the operation belongs to.
C29_AssessmentMatchesOperation ==
    (currentView = "loan-application" /\ currentLoanOperation # Null)
        => \/ selectedAssessment = Null
           \/ Val(selectedAssessment).id = Some(Val(currentLoanOperation).assessment_id)

----------------------------------------------------------------------------
(* LoanApplicationPage: the wizard, the back office list and the rows saved *)

MaxOperations == 2    \* rows of loan_operations
MaxPending == 1       \* saves awaiting their answer at one time

\* const updateData = { current_stage: stage, status: ... }
updateData(stage) ==
    [current_stage |-> stage,
     status |-> IF stage = "verification" THEN "completed" ELSE "in_progress"]

\* .from('loan_operations').update(updateData).eq('id', id)
updateRow(table, id, stage) ==
    {IF row.id = id
     THEN [row EXCEPT !.current_stage = updateData(stage).current_stage,
                      !.status = updateData(stage).status]
     ELSE row : row \in table}

\* The id the table gives a new row
newOperationId(table) ==
    IF table = {} THEN 1
    ELSE 1 + (CHOOSE n \in {row.id : row \in table} :
                  \A row \in table : row.id <= n)

\* .from('loan_operations').insert(insertData)
insertRow(table, assessmentId, stage) ==
    table \cup {operationRow(newOperationId(table), assessmentId,
                             [status |-> "in_progress", current_stage |-> stage])}

\* .select().single() after the write
rowOf(table, id) == CHOOSE row \in table : row.id = id

completedIds(table) == {row.id : row \in {r \in table : r.status = "completed"}}

\* The save createOrUpdateOperation sends: an update of operationData.id when
\* the page has an operation, an insert for the assessment otherwise
saveRequest(operation, assessment, stage) ==
    [target |-> IF operation # Null THEN Some(Val(operation).id) ELSE Null,
     assessment_id |-> IF operation # Null THEN Val(operation).assessment_id
                       ELSE Val(Val(assessment).id),
     stage |-> stage,
     mounted |-> TRUE]

pendingInserts(pending) ==
    Cardinality({i \in DOMAIN pending : pending[i].target = Null})

withoutSave(pending, i) ==
    SubSeq(pending, 1, i - 1) \o SubSeq(pending, i + 1, Len(pending))

\* The page that sent these saves is gone: their answers find no state to set
orphaned(pending) ==
    [i \in DOMAIN pending |-> [pending[i] EXCEPT !.mounted = FALSE]]

\* LoanApplicationPage mounts with the operation handed to it and its effect
\* runs: setCurrentStage(operationData.current_stage) and
\* setIsReadOnly(operationData.status === 'completed')
mountPage(operation) ==
    /\ operationData' = operation
    /\ currentStage' = IF operation # Null THEN Val(operation).current_stage
                       ELSE "contact_info"
    /\ isReadOnly' = (operation # Null /\ Val(operation).status = "completed")
    /\ loading' = FALSE
    /\ submitError' = FALSE

unmountPage ==
    /\ operationData' = Null
    /\ currentStage' = "contact_info"
    /\ isReadOnly' = FALSE
    /\ loading' = FALSE
    /\ submitError' = FALSE

\* BackOfficePage mounts, or unmounts: loading is true and the list empty
mountBackOffice ==
    /\ backOfficeLoading' = TRUE
    /\ loanOperations' = {}

\* The advisor has opened the back office; the table holds what earlier
\* sessions left
WizardInit ==
    /\ currentView = "backoffice"
    /\ currentAssessment = Null
    /\ selectedAssessment = Null
    /\ currentLoanOperation = Null
    /\ loanOperationsTable \in TablesAtRest
    /\ BackOfficeUnmounted
    /\ PageUnmounted
    /\ saves = <<>>
    /\ everCompleted = completedIds(loanOperationsTable)
    /\ AnalyzerIdle
    /\ BureauIdle
    /\ AssessmentIdle
    /\ ValidatorIdle
    /\ ResultsIdle

WizardFrame ==
    UNCHANGED <<analyzerVars, bureauVars, assessVars, validatorVars, resultsVars>>

\* BackOfficePage: fetchLoanOperations answers with the rows of the table, or
\* fails and leaves the list empty; Promise.all(...).finally sets loading false
BackOfficeLoaded ==
    /\ currentView = "backoffice"
    /\ backOfficeLoading
    /\ \E answered \in BOOLEAN :
          loanOperations' = IF answered THEN loanOperationsTable ELSE {}
    /\ backOfficeLoading' = FALSE
    /\ UNCHANGED <<appVars, loanOperationsTable, currentStage, operationData,
                   isReadOnly, loading, submitError, saves, everCompleted>>
    /\ WizardFrame

\* BackOfficePage: 'Iniciar' on an approved assessment for which the list
\* holds no operation; LoanApplicationPage mounts without operation
BeginApplication ==
    /\ currentView = "backoffice"
    /\ ~backOfficeLoading
    /\ \E c \in Clients :
          /\ ~hasAnyOperation(loanOperations, c)
          /\ handleStartLoanApplication(savedAssessment(c))
    /\ mountPage(Null)
    /\ mountBackOffice
    /\ UNCHANGED <<loanOperationsTable, saves, everCompleted>>
    /\ WizardFrame

\* BackOfficePage: an operation of the list is opened; LoanApplicationPage
\* mounts with the operation as the list holds it
ContinueOperation ==
    /\ currentView = "backoffice"
    /\ ~backOfficeLoading
    /\ \E op \in loanOperations :
          /\ handleViewLoanOperation(op)
          /\ mountPage(Some(op))
    /\ mountBackOffice
    /\ UNCHANGED <<loanOperationsTable, saves, everCompleted>>
    /\ WizardFrame

\* handleNext up to the await: the guards on loading and isReadOnly, the
\* validation of the form, and createOrUpdateOperation as far as its request
HandleNext ==
    /\ currentView = "loan-application"
    /\ ~loading
    /\ ~isReadOnly
    /\ \E valid \in BOOLEAN :
          IF ~valid
          THEN /\ submitError' = TRUE
               /\ UNCHANGED <<loading, saves>>
          ELSE /\ Len(saves) < MaxPending
               /\ operationData = Null =>
                     Cardinality(loanOperationsTable) + pendingInserts(saves)
                        < MaxOperations
               /\ loading' = TRUE
               /\ submitError' = FALSE
               /\ saves' = Append(saves, saveRequest(operationData,
                                                     selectedAssessment,
                                                     currentStage))
    /\ UNCHANGED <<appVars, loanOperationsTable, backOfficeLoading,
                   loanOperations, currentStage, operationData, isReadOnly,
                   everCompleted>>
    /\ WizardFrame

\* A save is answered with the row written.  createOrUpdateOperation sets
\* operationData and loading; handleNext moves to the next stage, or after the
\* last stage sets isReadOnly and calls onComplete, which is App's
\* handleBackToBackOffice.  The state setters of a page that is no longer
\* mounted do nothing; onComplete acts on App all the same.
SaveAnswered ==
    \E i \in DOMAIN saves :
        LET s == saves[i]
            table == IF s.target # Null
                     THEN updateRow(loanOperationsTable, Val(s.target), s.stage)
                     ELSE insertRow(loanOperationsTable, s.assessment_id, s.stage)
            data == IF s.target # Null
                    THEN rowOf(table, Val(s.target))
                    ELSE rowOf(table, newOperationId(loanOperationsTable))
            rest == withoutSave(saves, i)
        IN  /\ loanOperationsTable' = table
            /\ everCompleted' = everCompleted \cup completedIds(table)
            /\ IF stageIndex(s.stage) < Len(stages)
               THEN /\ saves' = rest
                    /\ UNCHANGED <<appVars, backOfficeLoading, loanOperations>>
                    /\ IF s.mounted
                       THEN /\ loading' = FALSE
                            /\ currentStage' = stages[stageIndex(s.stage) + 1]
                            /\ operationData' =
                                  Some([data EXCEPT !.current_stage =
                                            stages[stageIndex(s.stage) + 1]])
                            /\ isReadOnly' = (data.status = "completed")
                            /\ UNCHANGED submitError
                       ELSE UNCHANGED <<loading, currentStage, operationData,
                                        isReadOnly, submitError>>
               ELSE /\ handleBackToBackOffice
                    /\ unmountPage
                    /\ saves' = orphaned(rest)
                    /\ IF currentView = "loan-application"
                       THEN mountBackOffice
                       ELSE UNCHANGED <<backOfficeLoading, loanOperations>>
    /\ WizardFrame

\* A save is answered with an error: createOrUpdateOperation sets submitError
\* and loading and throws, handleNext catches
SaveRejected ==
    /\ \E i \in DOMAIN saves :
          /\ saves' = withoutSave(saves, i)
          /\ IF saves[i].mounted
             THEN loading' = FALSE /\ submitError' = TRUE
             ELSE UNCHANGED <<loading, submitError>>
    /\ UNCHANGED <<appVars, loanOperationsTable, backOfficeLoading,
                   loanOperations, currentStage, operationData, isReadOnly,
                   everCompleted>>
    /\ WizardFrame

\* The progress bar: a click on a stage up to the current one
StageClick ==
    /\ currentView = "loan-application"
    /\ ~isReadOnly
    /\ \E index \in DOMAIN stages :
          /\ index <= stageIndex(currentStage)
          /\ currentStage' = stages[index]
    /\ UNCHANGED <<appVars, loanOperationsTable, backOfficeLoading,
                   loanOperations, operationData, isReadOnly, loading,
                   submitError, saves, everCompleted>>
    /\ WizardFrame

\* Header: onBackOfficeClick while the wizard is shown
LeaveByHeader ==
    /\ currentView = "loan-application"
    /\ handleGoToBackOffice
    /\ unmountPage
    /\ mountBackOffice
    /\ saves' = orphaned(saves)
    /\ UNCHANGED <<loanOperationsTable, everCompleted>>
    /\ WizardFrame

\* LoanApplicationPage: onBack, 'Cancelar' (disabled while loading) or
\* 'Volver al BackOffice' of the read-only page
LeaveByBack ==
    /\ currentView = "loan-application"
    /\ isReadOnly \/ ~loading
    /\ handleBackToBackOffice
    /\ unmountPage
    /\ mountBackOffice
    /\ saves' = orphaned(saves)
    /\ UNCHANGED <<loanOperationsTable, everCompleted>>
    /\ WizardFrame

WizardNext ==
    \/ BackOfficeLoaded
    \/ BeginApplication
    \/ ContinueOperation
    \/ HandleNext
    \/ SaveAnswered
    \/ SaveRejected
    \/ StageClick
    \/ LeaveByHeader
    \/ LeaveByBack

SpecWizard == WizardInit /\ [][WizardNext]_vars

\* C28: a row of loan_operations has status 'completed' only with the stage
\* 'verification', and a row that has had status 'completed' keeps it and
\* keeps its current_stage, whatever handleNext is called afterwards.
C28_CompletedIsFinal ==
    /\ \A row \in loanOperationsTable :
          row.status = "completed" => row.current_stage = "verification"
    /\ \A id \in everCompleted :
          /\ rowOf(loanOperationsTable, id).status = "completed"
          /\ rowOf(loanOperationsTable, id).current_stage = "verification"

----------------------------------------------------------------------------
(* Loan assessment: performLoanAssessment and its cache *)

MaxAssessments == 3   \* calls of performLoanAssessment in one run of the program

OtherCuit == <<"2", "7", "9", "8", "7", "6", "5", "4", "3", "2", "1">>

\* mockClientData[cleanCuit]?.name
mockClientName(cleanCuit) ==
    IF cleanCuit = SeedCuit THEN Some("Juan Perez")
    ELSE IF cleanCuit = OtherCuit THEN Some("Maria Gonzalez")
    ELSE IF cleanCuit = <<"2", "3", "4", "5", "6", "7", "8", "9", "0", "1", "2">>
    THEN Some("Carlos Rodriguez")
    ELSE IF cleanCuit = <<"2", "0", "9", "8", "7", "6", "5", "4", "3", "2", "1">>
    THEN Some("Ana Martinez")
    ELSE IF cleanCuit = <<"2", "7", "1", "2", "3", "4", "5", "6", "7", "8", "9">>
    THEN Some("Luis Garcia")
    ELSE Null

\* The name the bureau reports in a record
denominacion(record) == "denominacion informada por el BCRA"

\* bcraData?.denominacion || bcraHistoricalData?.denominacion || clientData?.name
clientNameOf(debt, hist, cleanCuit) ==
    IF ~IsNull(debt) THEN Some(denominacion(Val(debt)))
    ELSE IF ~IsNull(hist) THEN Some(denominacion(Val(hist)))
    ELSE mockClientName(cleanCuit)

\* A key that is the identifier as the advisor typed it
cleanCuitOf_AsTyped(rawCuit) == rawCuit

\* const cleanCuit = cuit.replace(/\D/g, ''): the cache key and the argument
\* of both fetch calls
cleanCuitOf(rawCuit) == stripNonDigits(rawCuit)

\* assessmentCache.has / get / set
cacheHas(cache, key) == \E e \in cache : e.key = key

cacheGet(cache, key) ==
    IF cacheHas(cache, key)
    THEN Some((CHOOSE e \in cache : e.key = key).value)
    ELSE Null

cacheSet(cache, key, value) ==
    {e \in cache : e.key # key} \cup {[key |-> key, value |-> value]}

\* A catch block that makes the same call once more
onFetchFailure_Retry(error) == "retry"

\* A catch block that throws the error on to the caller
onFetchFailure_Rethrow(error) == "rethrow"

\* catch (error) { console.warn(...) }: the failure is logged and the function
\* goes on with its local still undefined
onFetchFailure(error) == "continue"

\* A call that is taken up again without awaiting the historical fetch
fetchAwaited_HistoricalNotAwaited(op) ==
    IF op = "historical" THEN fetchPc \in {"start", "awaiting", "done"}
    ELSE fetchPc = "done"

\* await fetchBCRA...Data(cleanCuit): the function is taken up again once the
\* promise has settled
fetchAwaited(op) == fetchPc = "done"

\* The promise of the fetch has settled
fetchSettled == fetchPc = "done" /\ outcome # Null

\* What the assignment leaves in the local: the record, or undefined
fetchedRecord ==
    IF fetchSettled /\ Val(outcome).ok THEN Some(Val(outcome).value) ELSE Null

\* How the fetch call that the function was waiting for ended
fetchCallEnded(op) ==
    [op |-> op,
     requests |-> Len(requests),
     settled |-> fetchSettled,
     ok |-> fetchSettled /\ Val(outcome).ok]

\* What the catch block does about the fetch call, "continue" when it succeeded
failurePolicy ==
    IF fetchSettled /\ ~Val(outcome).ok
    THEN onFetchFailure(Val(outcome).error)
    ELSE "continue"

\* Determine result based on BCRA status
resultOf(bcraEligibilityStatus) ==
    IF bcraEligibilityStatus = "BCRA_APTO" THEN "eligible"
    ELSE IF bcraEligibilityStatus = "BCRA_NO_APTO" THEN "not_eligible"
    ELSE "pending"

\* if (bcraData || bcraHistoricalData)
analyzerInvoked(debt, hist) == ~IsNull(debt) \/ ~IsNull(hist)

\* The object built at the end of the function
assessmentResultOf(debt, hist, cleanCuit, clock) ==
    LET bcraEligibilityAnalysis ==
            IF analyzerInvoked(debt, hist)
            THEN Some(analyzeBCRAEligibility(debt, hist, clock))
            ELSE Null
        bcraEligibilityStatus ==
            IF analyzerInvoked(debt, hist)
            THEN Val(bcraEligibilityAnalysis).status
            ELSE "BCRA_PENDING"
    IN  [result |-> resultOf(bcraEligibilityStatus),
         clientName |-> clientNameOf(debt, hist, cleanCuit),
         bcraData |-> debt,
         bcraHistoricalData |-> hist,
         bcraEligibilityStatus |-> bcraEligibilityStatus,
         bcraEligibilityAnalysis |-> bcraEligibilityAnalysis]

\* Identifiers the advisor submits: a client of the mock table, plain and
\* dashed, another client, and an identifier of 10 digits
AssessCuits == {SeedCuit, dashed(SeedCuit), OtherCuit, digitsOfLength(10)}

AssessInit ==
    /\ now \in Clocks
    /\ currentData = Null
    /\ historicalData = Null
    /\ analysis = Null
    /\ earlier = <<>>
    /\ BureauIdle
    /\ AssessmentIdle
    /\ UiIdle

\* fetchBCRADebtData(cleanCuit) or fetchBCRAHistoricalData(cleanCuit) is called
invokeFetch(op) ==
    /\ fetchOp' = op
    /\ cuit' = cleanCuitOf(assessCuit)
    /\ fetchPc' = "start"
    /\ requests' = <<>>
    /\ outcome' = Null
    /\ received' = Null

\* No fetch call is on the stack of the function any more
fetchReturned ==
    /\ fetchOp' = "none"
    /\ cuit' = <<>>
    /\ fetchPc' = "idle"
    /\ requests' = <<>>
    /\ outcome' = Null
    /\ received' = Null

\* performLoanAssessment(cuit) is called: cleanCuit, the look into the cache
\* and the start of the 300 ms or 800 ms delay
AssessCall ==
    /\ UNCHANGED uiVars
    /\ assessPc \in {"idle", "returned"}
    /\ assessments < MaxAssessments
    /\ \E c \in AssessCuits :
          /\ assessCuit' = c
          /\ assessPc' = IF cacheHas(assessmentCache, cleanCuitOf(c))
                         THEN "cachedDelay" ELSE "delay"
    /\ assessments' = assessments + 1
    /\ bcraData' = Null
    /\ fetchCalls' = <<>>
    /\ assessmentResult' = Null
    /\ analysis' = Null
    /\ currentData' = Null
    /\ historicalData' = Null
    /\ UNCHANGED <<now, earlier, assessmentCache>>
    /\ UNCHANGED bureauVars

\* After the 300 ms: return assessmentCache.get(cleanCuit)
AssessCachedReturn ==
    /\ UNCHANGED uiVars
    /\ assessPc = "cachedDelay"
    /\ LET hit == cacheGet(assessmentCache, cleanCuitOf(assessCuit)) IN
          assessmentResult' = IF IsNull(hit) THEN Null ELSE hit
    /\ assessPc' = "returned"
    /\ UNCHANGED <<assessCuit, assessments, bcraData, fetchCalls, assessmentCache>>
    /\ UNCHANGED analyzerVars
    /\ UNCHANGED bureauVars

\* After the 800 ms: the locals are declared and the debt fetch is called
AssessFetchDebt ==
    /\ UNCHANGED uiVars
    /\ assessPc = "delay"
    /\ assessPc' = "fetchDebt"
    /\ invokeFetch("debt")
    /\ UNCHANGED <<assessCuit, assessments, bcraData, fetchCalls,
                   assessmentCache, assessmentResult>>
    /\ UNCHANGED analyzerVars

\* The debt fetch is over: bcraData is assigned or the catch block runs, then
\* the historical fetch is called
AssessDebtSettled ==
    /\ UNCHANGED uiVars
    /\ assessPc = "fetchDebt"
    /\ fetchAwaited("debt")
    /\ fetchCalls' = Append(fetchCalls, fetchCallEnded("debt"))
    /\ bcraData' = fetchedRecord
    /\ IF failurePolicy = "rethrow"
       THEN assessPc' = "aborted" /\ fetchReturned
       ELSE IF failurePolicy = "retry"
       THEN assessPc' = "fetchDebt" /\ invokeFetch("debt")
       ELSE assessPc' = "fetchHistorical" /\ invokeFetch("historical")
    /\ UNCHANGED <<assessCuit, assessments, assessmentCache, assessmentResult>>
    /\ UNCHANGED analyzerVars

\* The historical fetch is over and the function runs to its end: the analyzer
\* is called if a record came, the result is built, cached and returned
AssessHistoricalSettled ==
    /\ UNCHANGED uiVars
    /\ assessPc = "fetchHistorical"
    /\ fetchAwaited("historical")
    /\ fetchCalls' = Append(fetchCalls, fetchCallEnded("historical"))
    /\ IF failurePolicy = "rethrow"
       THEN /\ assessPc' = "aborted"
            /\ fetchReturned
            /\ UNCHANGED <<assessmentCache, assessmentResult>>
            /\ UNCHANGED <<currentData, historicalData, analysis>>
       ELSE IF failurePolicy = "retry"
       THEN /\ assessPc' = "fetchHistorical"
            /\ invokeFetch("historical")
            /\ UNCHANGED <<assessmentCache, assessmentResult>>
            /\ UNCHANGED <<currentData, historicalData, analysis>>
       ELSE LET bcraHistoricalData == fetchedRecord
                cleanCuit == cleanCuitOf(assessCuit)
                result == assessmentResultOf(bcraData, bcraHistoricalData, cleanCuit, now)
            IN  /\ assessPc' = "returned"
                /\ fetchReturned
                /\ analysis' = result.bcraEligibilityAnalysis
                /\ currentData' =
                      IF analyzerInvoked(bcraData, bcraHistoricalData)
                      THEN bcraData ELSE Null
                /\ historicalData' =
                      IF analyzerInvoked(bcraData, bcraHistoricalData)
                      THEN historicalAfterAnalysis(bcraHistoricalData) ELSE Null
                /\ assessmentCache' = cacheSet(assessmentCache, cleanCuit, result)
                /\ assessmentResult' = Some(result)
    /\ UNCHANGED <<assessCuit, assessments, bcraData>>
    /\ UNCHANGED <<now, earlier>>

\* setInterval(() => assessmentCache.clear(), 5 * 60 * 1000)
ClearCache ==
    /\ UNCHANGED uiVars
    /\ assessmentCache # {}
    /\ assessmentCache' = {}
    /\ UNCHANGED <<assessPc, assessCuit, assessments, bcraData, fetchCalls,
                   assessmentResult>>
    /\ UNCHANGED analyzerVars
    /\ UNCHANGED bureauVars

AssessNext ==
    \/ AssessCall
    \/ AssessCachedReturn
    \/ AssessFetchDebt
    \/ FetchReject
    \/ FetchSend
    \/ FetchRespond
    \/ FetchThrow
    \/ AssessDebtSettled
    \/ AssessHistoricalSettled
    \/ ClearCache

SpecAssessment == AssessInit /\ [][AssessNext]_vars

\* The same program when its own steps are always taken in the end: timers
\* fire and settled promises take their functions up again.  Nothing makes
\* the bureau answer a request.
SpecAssessmentLive ==
    /\ AssessInit
    /\ [][AssessNext]_vars
    /\ WF_vars(AssessCachedReturn)
    /\ WF_vars(AssessFetchDebt)
    /\ WF_vars(FetchReject)
    /\ WF_vars(FetchSend)
    /\ WF_vars(AssessDebtSettled)
    /\ WF_vars(AssessHistoricalSettled)
    /\ WF_vars(ClearCache)

----------------------------------------------------------------------------
(* Properties of the loan assessment *)

\* The fetch calls of the call under way that were for op
CallsOf(op) == {i \in DOMAIN fetchCalls : fetchCalls[i].op = op}

\* The call went through the fetches and has returned
AssessedFresh == assessPc = "returned" /\ fetchCalls # <<>>

\* C18: no retries: a fetch call sends at most one request, and one call of
\* performLoanAssessment calls each of the two fetch operations at most once.
C18_NoRetries ==
    /\ Len(requests) <= 1
    /\ \A i \in DOMAIN fetchCalls : fetchCalls[i].requests <= 1
    /\ Cardinality(CallsOf("debt")) <= 1
    /\ Cardinality(CallsOf("historical")) <= 1
    /\ assessPc = "fetchDebt" => fetchCalls = <<>>
    /\ assessPc = "fetchHistorical" => CallsOf("historical") = {}

\* C18 happens: both fetches failed after sending their request and the call
\* returned without a further fetch call
C18_Witness ==
    /\ AssessedFresh
    /\ Len(fetchCalls) = 2
    /\ \A i \in DOMAIN fetchCalls : fetchCalls[i].requests = 1 /\ ~fetchCalls[i].ok

\* C19: whatever the outcomes of the two fetches, the call does not abort: it
\* goes on from a settled fetch, a failed fetch leaves its record absent, the
\* other fetch is attempted all the same, and the call returns a result.
C19_PartialFailureTolerated ==
    /\ assessPc # "aborted"
    /\ (assessPc \in {"fetchDebt", "fetchHistorical"} /\ fetchPc = "done") =>
          /\ fetchAwaited(fetchOp)
          /\ failurePolicy = "continue"
    /\ assessPc = "fetchHistorical" =>
          /\ Len(fetchCalls) = 1
          /\ fetchCalls[1].op = "debt"
          /\ IsNull(bcraData) <=> ~fetchCalls[1].ok
    /\ AssessedFresh =>
          /\ Len(fetchCalls) = 2
          /\ fetchCalls[1].op = "debt"
          /\ fetchCalls[2].op = "historical"
          /\ assessmentResult # Null
          /\ Val(assessmentResult).result \in {"eligible", "not_eligible", "pending"}
          /\ IsNull(Val(assessmentResult).bcraData) <=> ~fetchCalls[1].ok
          /\ IsNull(Val(assessmentResult).bcraHistoricalData) <=> ~fetchCalls[2].ok

\* C19 happens: the debt fetch failed, the historical fetch brought the worked
\* example, and the call returned a result built on the history alone
C19_Witness ==
    /\ AssessedFresh
    /\ ~fetchCalls[1].ok
    /\ fetchCalls[2].ok
    /\ IsNull(Val(assessmentResult).bcraData)
    /\ Val(assessmentResult).bcraHistoricalData = Some(ExampleRecord)
    /\ Val(assessmentResult).result = "not_eligible"

\* C20: the analyzer is called only when both fetches have settled, never
\* while one of them is in flight.
C20_AnalyzerAfterFetches ==
    (assessPc # "idle" /\ analysis # Null) =>
        /\ fetchPc \notin {"start", "awaiting"}
        /\ \E i \in CallsOf("debt") : fetchCalls[i].settled
        /\ \E i \in CallsOf("historical") : fetchCalls[i].settled

\* C20 happens: the analyzer was called on two records that both arrived
C20_Witness ==
    /\ AssessedFresh
    /\ analysis # Null
    /\ ~IsNull(currentData)
    /\ ~IsNull(historicalData)
    /\ fetchCalls[1].settled
    /\ fetchCalls[2].settled

\* The call came back from the cache, without fetching
AssessedFromCache == assessPc = "returned" /\ fetchCalls = <<>>

AssessmentResults == {"eligible", "not_eligible", "pending"}

\* C21: for every combination of fetch outcomes, both failing included, the
\* call returns the verdict of the analyzer on what was obtained: status and
\* analysis are those of analyzeBCRAEligibility on the two records of the
\* result, and result is eligible / not_eligible / pending for APTO / NO_APTO
\* / PENDING.
C21_ReturnsAnalyzerVerdict ==
    AssessedFresh =>
        LET r == Val(assessmentResult)
            verdict == analyzeBCRAEligibility(r.bcraData, r.bcraHistoricalData, now)
        IN  /\ r.bcraEligibilityAnalysis = Some(verdict)
            /\ r.bcraEligibilityStatus = verdict.status
            /\ r.result = "eligible" <=> verdict.status = "BCRA_APTO"
            /\ r.result = "not_eligible" <=> verdict.status = "BCRA_NO_APTO"
            /\ r.result = "pending" <=> verdict.status = "BCRA_PENDING"

\* A call is waiting for a fetch call to settle
AwaitingFetch == assessPc \in {"fetchDebt", "fetchHistorical"}

\* C22: a call that waits for a bureau fetch completes in the end, also when
\* the bureau never answers that fetch.
C22_FetchTimesOut == AwaitingFetch ~> (assessPc = "returned")

\* Every key of the cache is a string of digits and no key comes twice
CacheKeysClean ==
    \A e \in assessmentCache :
        /\ e.key = stripNonDigits(e.key)
        /\ \A f \in assessmentCache : f.key = e.key => f = e

\* C23: the cache is keyed on the stripped identifier: a call writes its
\* result under the digits of its input, a call takes the cache path only for
\* an entry under the digits of its input, and returns that entry.
C23_CacheKeyedOnDigits ==
    /\ CacheKeysClean
    /\ (AssessedFresh /\ assessmentCache # {}) =>
          cacheGet(assessmentCache, stripNonDigits(assessCuit)) = assessmentResult
    /\ (assessPc = "cachedDelay" /\ assessmentCache # {}) =>
          cacheHas(assessmentCache, stripNonDigits(assessCuit))
    /\ (AssessedFromCache /\ assessmentCache # {}) =>
          cacheGet(assessmentCache, stripNonDigits(assessCuit)) = assessmentResult

\* C23 happens: a dashed identifier was answered from the entry kept under its
\* digits, while the cache also keeps the entry of another identifier
C23_Witness ==
    /\ AssessedFromCache
    /\ assessCuit = dashed(SeedCuit)
    /\ assessmentResult # Null
    /\ cacheGet(assessmentCache, SeedCuit) = assessmentResult
    /\ cacheHas(assessmentCache, OtherCuit)
    /\ cacheGet(assessmentCache, OtherCuit) # assessmentResult

\* A result built without one of the two records
Degraded(r) == IsNull(r.bcraData) \/ IsNull(r.bcraHistoricalData)

\* C24: a result of a call in which a fetch failed is not served from the
\* cache: the later call for that identifier fetches again.
C24_DegradedNotServedFromCache ==
    (AssessedFromCache /\ assessmentResult # Null) => ~Degraded(Val(assessmentResult))

\* C26: whatever the interleaving of calls and cache clears, a call that
\* completes returns a result object with one of the three results, also when
\* the cache is cleared while a call on the cache path waits.
C26_CompletedCallHasResult ==
    assessPc = "returned" =>
        /\ assessmentResult # Null
        /\ Val(assessmentResult).result \in AssessmentResults

----------------------------------------------------------------------------
(* Properties of the analyzer: the two windows against each other *)

\* C30: in every verdict a 6-month worst situation comes with a 12-month
\* worst situation that is at least as great, and when a most recent period
\* of the history lies in the 6-month window the 6-month worst situation is
\* at least the current situation.
C30_SixWithinTwelve ==
    Analyzed =>
        /\ Verdict.last6MonthsWorstSituation # Null =>
              /\ Verdict.last12MonthsWorstSituation # Null
              /\ Val(Verdict.last12MonthsWorstSituation)
                    >= Val(Verdict.last6MonthsWorstSituation)
        /\ MostRecent \cap InWindow(6) # {} =>
              /\ Verdict.last6MonthsWorstSituation # Null
              /\ Verdict.currentSituation # Null
              /\ Val(Verdict.last6MonthsWorstSituation)
                    >= Val(Verdict.currentSituation)

\* C30 happens: the most recent period lies in the 6-month window, an older
\* period lies in the 12-month window only, and the older one is the worse
C30_Witness ==
    /\ Analyzed
    /\ MostRecent \cap InWindow(6) # {}
    /\ InWindow(12) \ InWindow(6) # {}
    /\ Verdict.last6MonthsWorstSituation = Verdict.currentSituation
    /\ Verdict.last6MonthsWorstSituation = Some(1)
    /\ Verdict.last12MonthsWorstSituation = Some(MaxSituacion)

====
